---- MODULE Spec2Model ----
(***************************************************************************)
(* Model of the NMF benchmark glue: Objective (objective.py) and the       *)
(* scikit-learn Solver adapter (solvers/sklearn.py).                       *)
(*                                                                         *)
(* Numbers.  The arrays of the program hold floats.  The model computes in *)
(* exact real arithmetic and keeps every quantity that involves a square   *)
(* root in a closed form over the integers:                                *)
(*   - a column of an array is [v |-> <<integers>>, d |-> natural] and     *)
(*     stands for the real vector v / sqrt(d); d = 1 for integer data,     *)
(*     d = c*c for data divided by c, and d = 0 marks a column of NaN      *)
(*     (the result of 0/0);                                                *)
(*   - a scalar is [num |-> integer, den |-> natural] and stands for       *)
(*     num / sqrt(den); den = 0 marks NaN.                                 *)
(* Floating-point rounding is not modelled.                                *)
(*                                                                         *)
(* Layout.  W is the sequence of its columns.  H is the sequence of its    *)
(* rows, which is also the sequence of the columns of H.T.  numpy indices  *)
(* start at 0, the model's at 1.                                           *)
(***************************************************************************)
EXTENDS Integers, Sequences, FiniteSets, TLC

VARIABLES
    X,              \* Objective.X
    rank,           \* Objective.rank
    true_factors,   \* Objective.true_factors: <<W_true, H_true>> or None
    passed,         \* the value of the arrays handed to the last compute call
    factors,        \* the caller's arrays after that call returned
    output,         \* what the last compute call returned or raised
    solver          \* the Solver object and the position of its run

vars == <<X, rank, true_factors, passed, factors, output, solver>>

\* Python's None where an array, a pair or a dictionary is expected: the
\* empty tuple, which is as falsy as None.
None == <<>>

\* `raised` of a call that returned.
Returned == "returned"

(***************************************************************************)
(* Bounds of the explored inputs.                                          *)
(***************************************************************************)
MaxScale == 2       \* rescaling factors c range over 2..MaxScale
MaxIter == 1        \* n_iter ranges over 0..MaxIter

(***************************************************************************)
(* Integer helpers.                                                        *)
(***************************************************************************)
Sgn(a) == IF a > 0 THEN 1 ELSE IF a < 0 THEN -1 ELSE 0

Min(a, b) == IF a <= b THEN a ELSE b

RECURSIVE GCD(_, _)
GCD(a, b) == IF b = 0 THEN a ELSE GCD(b, a % b)

RECURSIVE SumTo(_, _)
SumTo(f, n) == IF n = 0 THEN 0 ELSE f[n] + SumTo(f, n - 1)

RECURSIVE ProdTo(_, _)
ProdTo(x, n) ==
    IF n = 0 THEN [num |-> 1, den |-> 1]
    ELSE LET r == ProdTo(x, n - 1)
         IN  [num |-> x[n].num * r.num, den |-> x[n].den * r.den]

\* F(e), with e evaluated once.
Bind(e, F(_)) == CHOOSE y \in {F(x) : x \in {e}} : TRUE

\* <<F(1), ..., F(n)>> for the array sizes of the model, n <= 3.
Tab(n, F(_)) ==
    IF n = 0 THEN <<>>
    ELSE IF n = 1 THEN <<F(1)>>
    ELSE IF n = 2 THEN <<F(1), F(2)>>
    ELSE <<F(1), F(2), F(3)>>

\* sum over k of u[k] * v[k]
Dot(u, v) == SumTo(Tab(Len(u), LAMBDA k : u[k] * v[k]), Len(u))

(***************************************************************************)
(* numpy primitives used by Objective.compute.                             *)
(***************************************************************************)
NaN == [sgn |-> 0, num |-> 0, den |-> 0]

\* A.shape[0] of an array given by its columns.
NRows(A) == Len(A[1].v)

\* np.linalg.norm(A, axis=0): the Euclidean norm of every column, kept as its
\* square num/den.
norm(A) ==
    Tab(Len(A), LAMBDA k : [num |-> Dot(A[k].v, A[k].v), den |-> A[k].d])

\* The mutant of TrueDivide: `A /= nrm`, which writes the quotient into A.
InPlaceDivide(A, nrm) ==
    LET q == Tab(Len(A), LAMBDA k :
                [v |-> A[k].v,
                 d |-> IF nrm[k].den = 0 THEN 0
                       ELSE (A[k].d * nrm[k].num) \div nrm[k].den])
    IN  [result |-> q, operand |-> q]

\* The mutant of TrueDivide: every column divided by the norm of the whole
\* array (np.linalg.norm without axis=0).  With P the product of the
\* denominators nrm[j].den and total = P * (sum of the squared column norms),
\* column k becomes P*v / sqrt(P * d * total).
WholeNormDivide(A, nrm) ==
    LET P     == ProdTo(Tab(Len(A), LAMBDA j : [num |-> 1, den |-> nrm[j].den]),
                        Len(A)).den
        total == SumTo(Tab(Len(A), LAMBDA j : nrm[j].num * (P \div nrm[j].den)),
                       Len(A))
    IN  [result  |-> Tab(Len(A), LAMBDA k :
                        [v |-> Tab(Len(A[k].v), LAMBDA i : P * A[k].v[i]),
                         d |-> P * A[k].d * total]),
         operand |-> A]

\* The mutant of TrueDivide: the division by the norm left out.
NoDivide(A, nrm) == [result |-> A, operand |-> A]

\* The mutant of TrueDivide: a column of norm zero is left as it is instead
\* of being divided.
GuardedDivide(A, nrm) ==
    [result  |-> Tab(Len(A), LAMBDA k :
                    IF nrm[k].num = 0 THEN A[k]
                    ELSE [v |-> A[k].v,
                          d |-> (A[k].d * nrm[k].num) \div nrm[k].den]),
     operand |-> A]

\* A / nrm with broadcasting over the columns: column k divided by nrm[k].
\* (v/sqrt(d)) / sqrt(num/den) = v / sqrt(d*num/den); a zero column gives
\* 0/0 = NaN in every entry (numpy warns and goes on).  `result` is the new
\* array the operator allocates, `operand` is A after the statement.
TrueDivide(A, nrm) ==
    [result  |-> Tab(Len(A), LAMBDA k :
                    [v |-> A[k].v,
                     d |-> IF nrm[k].den = 0 THEN 0
                           ELSE (A[k].d * nrm[k].num) \div nrm[k].den]),
     operand |-> A]

\* A.T @ B is defined when the arrays have as many rows.
MatTMulOk(A, B) == NRows(A) = NRows(B)

\* A.T @ B: entry [a][b] is column a of A dot column b of B.
MatTMul(A, B) ==
    Tab(Len(A), LAMBDA a : Tab(Len(B), LAMBDA b :
        [num |-> Dot(A[a].v, B[b].v), den |-> A[a].d * B[b].d]))

\* P * Q, elementwise.
Multiply(P, Q) ==
    Tab(Len(P), LAMBDA a : Tab(Len(P[a]), LAMBDA b :
        [num |-> P[a][b].num * Q[a][b].num, den |-> P[a][b].den * Q[a][b].den]))

IsNaN(x) == x.den = 0

\* x < y for two scalars that are not NaN: t |-> sgn(t) * t^2 is increasing.
Less(x, y) ==
    Sgn(x.num) * x.num * x.num * y.den < Sgn(y.num) * y.num * y.num * x.den

\* np.argmax of one row: the first index of the maximum; a NaN counts as the
\* maximum, so the first NaN wins.
ArgMaxRow(row) ==
    IF \E j \in 1..Len(row) : IsNaN(row[j])
    THEN CHOOSE j \in 1..Len(row) :
            IsNaN(row[j]) /\ \A k \in 1..(j - 1) : ~IsNaN(row[k])
    ELSE CHOOSE j \in 1..Len(row) :
            /\ \A k \in 1..Len(row) : ~Less(row[j], row[k])
            /\ \A k \in 1..(j - 1) : Less(row[k], row[j])

\* np.argmax(P, axis=0): for every column of P the index of its best row.
\* The program does not call it; the assignment policy of the specification
\* is stated with it.
argmax_axis0(P) ==
    Tab(Len(P[1]), LAMBDA b : ArgMaxRow(Tab(Len(P), LAMBDA a : P[a][b])))

\* np.argmax(P, axis=1): for every row of P the index of its best column.
argmax_axis1(P) == Tab(Len(P), LAMBDA a : ArgMaxRow(P[a]))

\* A[:, perms] raises IndexError when an index is out of bounds.
TakeOk(A, perms) == \A a \in 1..Len(perms) : perms[a] <= Len(A)

\* A[:, perms]: a new array whose column a is column perms[a] of A.
Take(A, perms) == Tab(Len(perms), LAMBDA a : A[perms[a]])

\* The mutant of diag: the first row of P instead of its diagonal.
first_row(P) == Tab(Min(Len(P), Len(P[1])), LAMBDA k : P[1][k])

\* np.diag(P) of a 2-D array: P[k][k] for k up to the smaller dimension.
diag(P) == Tab(Min(Len(P), Len(P[1])), LAMBDA k : P[k][k])

\* x * y, elementwise on two 1-D arrays of the same length.
Multiply1(x, y) ==
    Tab(Len(x), LAMBDA k : [num |-> x[k].num * y[k].num, den |-> x[k].den * y[k].den])

\* np.prod(x)
prod(x) == ProdTo(x, Len(x))

\* The real number num/sqrt(den) in lowest terms: sgn * sqrt(num/den).
Real(x) ==
    IF x.den = 0 THEN NaN
    ELSE LET p == x.num * x.num
             g == GCD(p, x.den)
         IN  [sgn |-> Sgn(x.num), num |-> p \div g, den |-> x.den \div g]

One == [sgn |-> 1, num |-> 1, den |-> 1]

\* 0 <= s <= 1, -1 <= s <= 1 for a score in lowest terms.
InUnitInterval(s) == s # NaN /\ s.sgn >= 0 /\ s.num <= s.den
InSignedUnitInterval(s) == s # NaN /\ s.num <= s.den

(***************************************************************************)
(* Objective (objective.py).                                               *)
(***************************************************************************)
Max(a, b) == IF a >= b THEN a ELSE b

\* np.dot(W, H) for integer W (by columns) and H (by rows), as a matrix
\* indexed [i][j]; it is defined when W has as many columns as H has rows.
dotOk(W, H) == Len(W) = Len(H)

dot(W, H) ==
    Tab(NRows(W), LAMBDA i : Tab(Len(H[1].v), LAMBDA j :
        SumTo(Tab(Len(W), LAMBDA k : W[k].v[i] * H[k].v[j]), Len(W))))

\* numpy broadcasting of two 2-D shapes.
Broadcastable(A, B) ==
    /\ (Len(A) = Len(B) \/ Len(A) = 1 \/ Len(B) = 1)
    /\ (Len(A[1]) = Len(B[1]) \/ Len(A[1]) = 1 \/ Len(B[1]) = 1)

At(A, i, j) ==
    A[IF Len(A) = 1 THEN 1 ELSE i][IF Len(A[1]) = 1 THEN 1 ELSE j]

\* 1/2 * np.linalg.norm(X - WH)**2, as the rational num/den.
frobenius(Xd, WH) ==
    LET n == Max(Len(Xd), Len(WH))
        m == Max(Len(Xd[1]), Len(WH[1]))
        row(i) == SumTo(Tab(m, LAMBDA j :
                    (At(Xd, i, j) - At(WH, i, j)) * (At(Xd, i, j) - At(WH, i, j))), m)
    IN  [num |-> SumTo(Tab(n, LAMBDA i : row(i)), n), den |-> 2]

\* Objective.get_one_solution: np.zeros((n, rank)), np.zeros((rank, m)).
get_one_solution(Xd, r) ==
    << Tab(r, LAMBDA k : [v |-> Tab(Len(Xd), LAMBDA i : 0), d |-> 1]),
       Tab(r, LAMBDA k : [v |-> Tab(Len(Xd[1]), LAMBDA j : 0), d |-> 1]) >>

\* The similarity matrix of line 85 on the normalized arrays:
\* (W.T @ W_true) * (Ht.T @ Ht_true); entry [a][b] couples estimate
\* component a with truth component b.
Similarity(Wn, Htn, Wtn, Httn) ==
    Multiply(MatTMul(Wn, Wtn), MatTMul(Htn, Httn))

\* Lines 61-88 of Objective.compute: the factor match score of the estimate
\* (W, H) against (W_true, H_true).  Returns what is raised, the permutation,
\* the score, and the four input arrays as the statements leave them.
factor_match(W, H, W_true, H_true) ==
    LET qW   == TrueDivide(W, norm(W))
        qHt  == TrueDivide(H, norm(H))
        qWt  == TrueDivide(W_true, norm(W_true))
        qHtt == TrueDivide(H_true, norm(H_true))
        Wn   == qW.result
        Htn  == qHt.result
        Wtn  == qWt.result
        Httn == qHtt.result
        after == [factors      |-> <<qW.operand, qHt.operand>>,
                  true_factors |-> <<qWt.operand, qHtt.operand>>]
    IN  IF ~MatTMulOk(Wn, Wtn) \/ ~MatTMulOk(Htn, Httn)
        THEN [raised |-> "ValueError", perms |-> <<>>, score |-> NaN,
              after |-> after]
        ELSE Bind(argmax_axis1(Similarity(Wn, Htn, Wtn, Httn)), LAMBDA perms :
            IF ~TakeOk(Wn, perms)
            THEN [raised |-> "IndexError", perms |-> perms, score |-> NaN,
                  after |-> after]
            ELSE
            LET Wp  == Take(Wn, perms)
                Htp == Take(Htn, perms)
            IN  [raised |-> Returned,
                 perms  |-> perms,
                 score  |-> Real(prod(Multiply1(diag(MatTMul(Wp, Wtn)),
                                                diag(MatTMul(Htp, Httn))))),
                 after  |-> after])

\* Objective.compute(factors) on an object holding Xd and tf.  The 'kl' entry
\* of the dictionary (scipy's kl_div, a logarithm) is left out of the model:
\* it has the shape conditions of the 'frobenius' entry.
compute(Xd, tf, f) ==
    LET W == f[1]
        H == f[2]
    IN  IF ~dotOk(W, H) \/ ~Broadcastable(Xd, dot(W, H))
        THEN [raised |-> "ValueError", output_dic |-> None, perms |-> <<>>,
              factors |-> f, true_factors |-> tf]
        ELSE
        LET loss == [frobenius |-> frobenius(Xd, dot(W, H))]
        IN  IF tf = None
            THEN [raised |-> Returned, output_dic |-> loss, perms |-> <<>>,
                  factors |-> f, true_factors |-> tf]
            ELSE
            Bind(factor_match(W, H, tf[1], tf[2]), LAMBDA m :
                [raised       |-> m.raised,
                 output_dic   |-> IF m.raised = Returned
                                  THEN [frobenius |-> loss.frobenius,
                                        factor_match_score |-> m.score]
                                  ELSE None,
                 perms        |-> m.perms,
                 factors      |-> m.after.factors,
                 true_factors |-> m.after.true_factors])

(***************************************************************************)
(* The inputs the benchmark hands to the Objective.  All arrays hold       *)
(* integers (d = 1); the outer dimensions of the data are 2 x 2.           *)
(***************************************************************************)
Bits == {0, 1}
Entries == {0, 1, 2}
SignedEntries == {-1, 0, 1}

Cols(n, S) == {[v |-> u, d |-> 1] : u \in [1..n -> S]}

\* The factor pairs (W, H) of rank r, W of n rows, H of m columns, over S.
PairsOf(r, n, m, S) == [1..r -> Cols(n, S)] \X [1..r -> Cols(m, S)]

EntriesIn(f, S) ==
    \A a \in 1..2 : \A k \in 1..Len(f[a]) : \A i \in 1..Len(f[a][k].v) :
        f[a][k].v[i] \in S

BitPairs == PairsOf(1, 2, 2, Bits) \cup PairsOf(2, 2, 2, Bits)
WidePairs == PairsOf(1, 2, 2, Entries) \cup PairsOf(2, 2, 2, Entries)
SignedPairs == PairsOf(1, 2, 2, SignedEntries) \cup PairsOf(2, 2, 2, SignedEntries)
\* Rank 3: the pairs over Bits without an all-zero column or row.
Rank3Pairs ==
    [1..3 -> Cols(2, Bits) \ Cols(2, {0})] \X [1..3 -> Cols(2, Bits) \ Cols(2, {0})]

\* One pair of every shape: rank and outer dimensions from 1 to 3.
ShapePairs ==
    UNION {PairsOf(r, n, m, {1}) : r \in 1..3, n \in 1..3, m \in 1..3}

Truths == WidePairs \cup SignedPairs \cup Rank3Pairs

ComponentOrders(r) == {p \in [1..r -> 1..r] : \A a, b \in 1..r : p[a] = p[b] => a = b}

\* The pair with its components reordered: W[:, sigma] and H[sigma, :].
Permute(f, sigma) ==
    << Tab(Len(sigma), LAMBDA k : f[1][sigma[k]]),
       Tab(Len(sigma), LAMBDA k : f[2][sigma[k]]) >>

\* Component k rescaled: column k of W times c, row k of H times 1/c.
Rescale(f, k, c) ==
    << [f[1] EXCEPT ![k] = [v |-> Tab(Len(f[1][k].v), LAMBDA i : c * f[1][k].v[i]),
                              d |-> @.d]],
       [f[2] EXCEPT ![k] = [v |-> @.v, d |-> @.d * c * c]] >>

\* The estimates explored against the ground truth tf: the truth itself in
\* every order of its components, the all-zero solution, every pair of rank
\* one over the truth's entries when the truth has rank one, and, for a truth
\* over Bits, every pair over Bits of rank 1 or 2 and one pair of every shape.
EstimatesFor(Xd, r, tf) ==
    {Permute(tf, sigma) : sigma \in ComponentOrders(Len(tf[1]))}
    \cup {get_one_solution(Xd, r)}
    \cup (IF Len(tf[1]) = 1
          THEN IF EntriesIn(tf, Entries) THEN PairsOf(1, 2, 2, Entries)
               ELSE PairsOf(1, 2, 2, SignedEntries)
          ELSE {})
    \cup (IF Len(tf[1]) <= 2 /\ EntriesIn(tf, Bits)
          THEN BitPairs \cup ShapePairs
          ELSE {})

\* The data of a ground truth: X = W_true @ H_true.
DataOf(tf) == dot(tf[1], tf[2])

(***************************************************************************)
(* The Objective as a state machine.                                       *)
(***************************************************************************)
NoClf == [made |-> FALSE, init |-> "None", solver |-> "", beta_loss |-> "",
          max_iter |-> 0, components_ |-> None]

NoSolver == [pc |-> "new", raised |-> "", X |-> None, rank |-> 0,
             factors_init |-> None, clf |-> NoClf, W |-> None, result |-> None]

NotCalled == [raised |-> "not called", output_dic |-> None, perms |-> <<>>]

Init ==
    /\ X = None
    /\ rank = 0
    /\ true_factors = None
    /\ passed = None
    /\ factors = None
    /\ output = NotCalled
    /\ solver = NoSolver

\* Objective.set_data(X, rank, true_factors), called once on a new object.
set_data(Xd, r, tf) ==
    /\ X' = Xd
    /\ rank' = r
    /\ true_factors' = tf
    /\ passed' = None
    /\ factors' = None
    /\ output' = NotCalled
    /\ UNCHANGED solver

SetData ==
    /\ X = None
    /\ \/ \E tf \in Truths : set_data(DataOf(tf), Len(tf[1]), tf)
       \/ \E r \in 1..2 : set_data(<<(<<1, 1>>), (<<1, 1>>)>>, r, None)

\* A call compute(f): the caller keeps the arrays of f, the object its fields.
\* A behaviour follows one evaluation.
Compute(f) ==
    \E c \in {compute(X, true_factors, f)} :
        /\ passed' = f
        /\ factors' = c.factors
        /\ true_factors' = c.true_factors
        /\ output' = [raised |-> c.raised, output_dic |-> c.output_dic,
                      perms |-> c.perms]
        /\ UNCHANGED <<X, rank, solver>>

ComputeCall ==
    /\ X # None
    /\ output = NotCalled
    /\ \E f \in (IF true_factors = None THEN PairsOf(rank, 2, 2, Bits)
                 ELSE EstimatesFor(X, rank, true_factors)) :
          Compute(f)

Next == SetData \/ ComputeCall

Spec == Init /\ [][Next]_vars

(***************************************************************************)
(* Vocabulary of the properties.                                           *)
(***************************************************************************)
\* The last compute call returned a dictionary with a factor match score.
Scored ==
    /\ true_factors # None
    /\ output.raised = Returned

Score == output.output_dic.factor_match_score

\* Same rank and same outer dimensions n and m.
SameShape(f, g) ==
    /\ Len(f[1]) = Len(g[1])
    /\ NRows(f[1]) = NRows(g[1])
    /\ NRows(f[2]) = NRows(g[2])

IsZero(col) == Dot(col.v, col.v) = 0

\* Some component has an all-zero W-column or an all-zero H-row.
HasZeroComponent(f) ==
    \E k \in 1..Len(f[1]) : IsZero(f[1][k]) \/ IsZero(f[2][k])

NonDegenerate(f) == ~HasZeroComponent(f)

NonNegative(f) ==
    \A a \in 1..2 : \A k \in 1..Len(f[a]) : \A i \in 1..Len(f[a][k].v) :
        f[a][k].v[i] >= 0

\* u and v are collinear with the same direction (Cauchy-Schwarz with
\* equality and a positive inner product).
SameDirection(u, v) ==
    /\ Dot(u.v, v.v) > 0
    /\ Dot(u.v, v.v) * Dot(u.v, v.v) = Dot(u.v, u.v) * Dot(v.v, v.v)

\* Components a and b of f are the same after normalization.
Coincide(f, a, b) ==
    SameDirection(f[1][a], f[1][b]) /\ SameDirection(f[2][a], f[2][b])

NoCoincidingComponents(f) ==
    \A a, b \in 1..Len(f[1]) : a # b => ~Coincide(f, a, b)

\* The similarity matrix of the estimate f against the truth g, indexed
\* [estimate component][truth component].
SimilarityOf(f, g) ==
    Similarity(TrueDivide(f[1], norm(f[1])).result,
               TrueDivide(f[2], norm(f[2])).result,
               TrueDivide(g[1], norm(g[1])).result,
               TrueDivide(g[2], norm(g[2])).result)

(***************************************************************************)
(* C2.  Self-match: when the estimate passed to compute is the ground      *)
(* truth and no W-column and no H-row of it is zero, the returned          *)
(* factor_match_score is 1, also when components are collinear.            *)
(***************************************************************************)
SelfMatchScoresOne ==
    (Scored /\ passed = true_factors /\ NonDegenerate(passed)) => Score = One

\* Reached: a self-match of rank 2 whose two components are distinct arrays
\* with the same direction, so that every row of the similarity matrix ties.
SelfMatchWithTie ==
    /\ Scored
    /\ passed = true_factors
    /\ NonDegenerate(passed)
    /\ Len(passed[1]) = 2
    /\ passed[1][1] # passed[1][2]
    /\ Coincide(passed, 1, 2)
    /\ Score = One

(***************************************************************************)
(* C6.  Score range: for an estimate and a truth of the same shape whose   *)
(* components all have nonzero norm, the returned score lies in [-1, 1],   *)
(* and in [0, 1] when all entries are nonnegative.                         *)
(***************************************************************************)
ScoreInRange ==
    (/\ Scored
     /\ SameShape(passed, true_factors)
     /\ NonDegenerate(passed)
     /\ NonDegenerate(true_factors))
    => /\ InSignedUnitInterval(Score)
       /\ (NonNegative(passed) /\ NonNegative(true_factors)) => InUnitInterval(Score)

\* Reached: a score strictly between -1 and 0, from arrays with negative
\* entries.
NegativeScoreReached ==
    /\ Scored
    /\ SameShape(passed, true_factors)
    /\ NonDegenerate(passed)
    /\ NonDegenerate(true_factors)
    /\ Score.sgn = -1
    /\ Score.num < Score.den

(***************************************************************************)
(* C5.  Scale invariance: multiplying column k of W by c > 0 and row k of  *)
(* H by 1/c, in the estimate or in the ground truth, leaves the            *)
(* factor_match_score that compute returned unchanged.                     *)
(***************************************************************************)
ScaleInvariant ==
    Scored =>
        \A c \in 2..MaxScale :
            /\ \A k \in 1..Len(passed[1]) :
                 \E f \in {Rescale(passed, k, c)} :
                 \E m \in {factor_match(f[1], f[2],
                                        true_factors[1], true_factors[2])} :
                    m.raised = Returned /\ m.score = Score
            /\ \A k \in 1..Len(true_factors[1]) :
                 \E g \in {Rescale(true_factors, k, c)} :
                 \E m \in {factor_match(passed[1], passed[2], g[1], g[2])} :
                    m.raised = Returned /\ m.score = Score

\* Reached: a score strictly between 0 and 1 that the rescaling of the first
\* component of the estimate by 2 reproduces.
RescaledScoreReached ==
    /\ Scored
    /\ Score.sgn = 1
    /\ Score.num < Score.den
    /\ factor_match(Rescale(passed, 1, 2)[1], Rescale(passed, 1, 2)[2],
                    true_factors[1], true_factors[2]).score = Score

(***************************************************************************)
(* C4.  Degenerate component.  The claim as stated: whenever the estimate  *)
(* or the ground truth has a component with an all-zero W-column or H-row, *)
(* the evaluation fails with a DegenerateComponent error.                  *)
(***************************************************************************)
DegenerateComponentRaises ==
    (/\ true_factors # None
     /\ output.raised # "not called"
     /\ HasZeroComponent(passed) \/ HasZeroComponent(true_factors))
    => output.raised = "DegenerateComponent"

\* The estimate components that the reordering W[:, perms] selects.
Selected(perms) == {perms[a] : a \in 1..Len(perms)}

\* C4 as amended: with a zero component and matching shapes compute raises
\* nothing and returns a score; the score is NaN when the ground truth has a
\* zero component, and otherwise NaN exactly when the reordering selects a
\* zero component of the estimate.
DegenerateComponentPropagates ==
    (/\ true_factors # None
     /\ output.raised # "not called"
     /\ SameShape(passed, true_factors)
     /\ HasZeroComponent(passed) \/ HasZeroComponent(true_factors))
    => /\ output.raised = Returned
       /\ HasZeroComponent(true_factors) => Score = NaN
       /\ ~HasZeroComponent(true_factors) =>
            (Score = NaN <=>
                \E k \in Selected(output.perms) :
                    IsZero(passed[1][k]) \/ IsZero(passed[2][k]))

\* Reached: the all-zero pair of get_one_solution scored NaN against a ground
\* truth without zero components.
ZeroSolutionScoredNaN ==
    /\ Scored
    /\ passed = get_one_solution(X, rank)
    /\ NonDegenerate(true_factors)
    /\ Score = NaN

(***************************************************************************)
(* C1.  Permutation recovery: when the estimate is the ground truth with   *)
(* its components reordered, and the truth has no zero-norm component and  *)
(* no two components that coincide after normalization, the score is 1.    *)
(***************************************************************************)
PermutationRecovered ==
    (/\ Scored
     /\ NonDegenerate(true_factors)
     /\ NoCoincidingComponents(true_factors)
     /\ \E sigma \in ComponentOrders(Len(true_factors[1])) :
            passed = Permute(true_factors, sigma))
    => Score = One

(***************************************************************************)
(* C10.  Assignment direction: the estimate component placed at position i *)
(* is argmax over j of S[i, j], S[i, j] coupling estimate component j with *)
(* truth component i: the best row of column i of the matrix indexed       *)
(* [estimate][truth], ties to the lowest j.                                *)
(***************************************************************************)
AssignmentPerTruthIndex ==
    (/\ Scored
     /\ SameShape(passed, true_factors)
     /\ NonDegenerate(passed)
     /\ NonDegenerate(true_factors))
    => output.perms = argmax_axis0(SimilarityOf(passed, true_factors))

(***************************************************************************)
(* C9.  Joint relabeling: when every row of S (every truth component) has  *)
(* a unique maximum, reordering the components of the ground truth and of  *)
(* the estimate by the same sigma gives the same score.                    *)
(***************************************************************************)
UniqueMaxPerTruth(M) ==
    \A b \in 1..Len(M[1]) :
        \E a \in 1..Len(M) : \A a2 \in 1..Len(M) :
            a2 # a => Less(M[a2][b], M[a][b])

JointRelabelingInvariant ==
    (/\ Scored
     /\ SameShape(passed, true_factors)
     /\ NonDegenerate(passed)
     /\ NonDegenerate(true_factors)
     /\ UniqueMaxPerTruth(SimilarityOf(passed, true_factors)))
    => \A sigma \in ComponentOrders(Len(passed[1])) :
          factor_match(Permute(passed, sigma)[1], Permute(passed, sigma)[2],
                       Permute(true_factors, sigma)[1],
                       Permute(true_factors, sigma)[2]).score = Score

(***************************************************************************)
(* C3.  Shape mismatch: whenever the estimate and the ground truth differ  *)
(* in rank or in an outer dimension, the evaluation raises and returns no  *)
(* score.                                                                  *)
(***************************************************************************)
ShapeMismatchRaises ==
    (/\ true_factors # None
     /\ output.raised # "not called"
     /\ ~SameShape(passed, true_factors))
    => output.raised # Returned

(***************************************************************************)
(* C7.  No mutation of inputs: a compute call leaves the caller's W and H, *)
(* the ground truth and the data as they were.                             *)
(***************************************************************************)
ComputeLeavesInputsAlone ==
    [][output.raised = "not called" /\ output'.raised # "not called"
        => /\ factors' = passed'
           /\ true_factors' = true_factors
           /\ X' = X]_vars

\* Reached: a call that normalized and reordered nonzero arrays has returned
\* and the caller's arrays are what was passed.
ScoredWithInputsIntact ==
    /\ Scored
    /\ NonDegenerate(passed)
    /\ output.perms # <<1, 2>>
    /\ Len(passed[1]) = 2
    /\ factors = passed

(***************************************************************************)
(* Solver (solvers/sklearn.py) and Objective.get_objective.                *)
(***************************************************************************)
\* Solver.parameters
strategies == {"mu", "cd"}
losses == {"frobenius"}

\* The keyword parameters of sklearn.decomposition.NMF.
NMFParameters ==
    {"n_components", "init", "solver", "beta_loss", "tol", "max_iter",
     "random_state", "alpha_W", "alpha_H", "l1_ratio", "verbose", "shuffle"}

\* NMF(**kwargs): a keyword that is no parameter of NMF raises TypeError;
\* otherwise the estimator holds the given values, init None by default.
\* max_iter is set by run before it is read.
NMF(kwargs) ==
    IF ~(DOMAIN kwargs \subseteq NMFParameters)
    THEN [raised |-> "TypeError", clf |-> NoClf]
    ELSE [raised |-> "",
          clf |-> [made        |-> TRUE,
                   init        |-> IF "init" \in DOMAIN kwargs
                                   THEN kwargs.init ELSE "None",
                   solver      |-> kwargs.solver,
                   beta_loss   |-> IF "beta_loss" \in DOMAIN kwargs
                                   THEN kwargs.beta_loss ELSE "frobenius",
                   max_iter    |-> 0,
                   components_ |-> None]]

\* Objective.get_objective: the dictionary handed to Solver.set_objective.
\* rng.rand fills the two arrays of the shared init; `init` is what it drew.
get_objective(Xd, r, share_init, init) ==
    [X |-> Xd, rank |-> r,
     factors_init |-> IF share_init THEN init ELSE None]

\* What rng.rand can draw for the shapes (m, rank) and (rank, n) of line 104:
\* the two constant arrays of these shapes stand for it.
InitDraws(Xd, r) ==
    PairsOf(r, Len(Xd), Len(Xd[1]), {1}) \cup PairsOf(r, Len(Xd), Len(Xd[1]), {2})

\* Solver.set_objective(X, rank, factors_init) with the parameters strategy
\* and loss of the solver.
set_objective(Xd, r, factors_init, strategy, loss) ==
    LET made ==
          IF factors_init # None
          THEN NMF([n_components |-> r, init |-> "custom", solver |-> strategy,
                    beta_loss |-> loss, tol |-> 0, max_iter |-> "1e32"])
          ELSE NMF([n_components |-> r, solver |-> strategy,
                    lbeta_loss |-> loss, tol |-> 0, max_iter |-> "1e32"])
    IN  [pc           |-> IF made.raised = "" THEN "set" ELSE "failed",
         raised       |-> made.raised,
         X            |-> Xd,
         rank         |-> r,
         factors_init |-> IF factors_init # None THEN factors_init
                          ELSE None,
         clf          |-> made.clf,
         W            |-> None,
         result       |-> None]

\* NMF.fit_transform(X, W=W0, H=H0): with init "custom" the given arrays must
\* have the shapes (n, n_components) and (n_components, m), or ValueError is
\* raised.  It returns some nonnegative W of shape n x n_components and
\* leaves some nonnegative components_ of shape n_components x m; wh is that
\* pair.
fit_transform(clf, Xd, r, init, wh) ==
    IF clf.init = "custom"
       /\ ~(/\ Len(init[1]) = r /\ Len(init[2]) = r
            /\ NRows(init[1]) = Len(Xd) /\ NRows(init[2]) = Len(Xd[1]))
    THEN [raised |-> "ValueError", W |-> None, components_ |-> None]
    ELSE [raised |-> "", W |-> wh[1], components_ |-> wh[2]]

\* Solver.run(n_iter): max_iter is set, then the estimator is fitted, from
\* copies of the warm start when init is "custom".
run(sv, n_iter, wh) ==
    LET fit == IF sv.clf.init = "custom"
               THEN fit_transform(sv.clf, sv.X, sv.rank, sv.factors_init, wh)
               ELSE fit_transform(sv.clf, sv.X, sv.rank, None, wh)
    IN  [sv EXCEPT !.pc = IF fit.raised = "" THEN "ran" ELSE "failed",
                   !.raised = fit.raised,
                   !.clf.max_iter = n_iter + 1,
                   !.clf.components_ = fit.components_,
                   !.W = fit.W]

\* Solver.get_result
get_result(sv) == [sv EXCEPT !.pc = "done", !.result = <<sv.W, sv.clf.components_>>]

\* The data sets of the solver runs.
SolverData ==
    { <<(<<1, 1>>), (<<1, 1>>)>>, <<(<<1, 0>>), (<<0, 2>>)>>, <<(<<1, 2>>)>> }

SolverSetData ==
    /\ X = None
    /\ \E Xd \in SolverData : \E r \in 1..2 : set_data(Xd, r, None)

SetObjective ==
    /\ X # None
    /\ solver.pc = "new"
    /\ \E share_init \in BOOLEAN : \E strategy \in strategies : \E loss \in losses :
       \E init \in InitDraws(X, rank) :
          LET o == get_objective(X, rank, share_init, init)
          IN  solver' = set_objective(o.X, o.rank, o.factors_init, strategy, loss)
    /\ UNCHANGED <<X, rank, true_factors, passed, factors, output>>

Run ==
    /\ solver.pc = "set"
    /\ \E n_iter \in 0..MaxIter :
       \E wh \in PairsOf(solver.rank, Len(solver.X), Len(solver.X[1]), Bits) :
          solver' = run(solver, n_iter, wh)
    /\ UNCHANGED <<X, rank, true_factors, passed, factors, output>>

GetResult ==
    /\ solver.pc = "ran"
    /\ solver' = get_result(solver)
    /\ UNCHANGED <<X, rank, true_factors, passed, factors, output>>

SolverNext == SolverSetData \/ SetObjective \/ Run \/ GetResult

SolverSpec == Init /\ [][SolverNext]_vars

(***************************************************************************)
(* C8.  Optional warm start: set_objective, run and get_result yield a     *)
(* factor pair of shapes n x rank and rank x m with a warm start and       *)
(* without one; neither case ends in an error.                             *)
(***************************************************************************)
WarmStartOptional ==
    /\ solver.raised = ""
    /\ solver.pc = "done" =>
        /\ Len(solver.result[1]) = solver.rank
        /\ Len(solver.result[2]) = solver.rank
        /\ NRows(solver.result[1]) = Len(solver.X)
        /\ NRows(solver.result[2]) = Len(solver.X[1])
====
